---- MODULE Spec2Model ----
(***************************************************************************)
(* Model of scripts/__init__.py of MMT: the module-level path constants    *)
(* computed when the module is loaded, and mmt_javamain, which builds the  *)
(* argument vector of a Java launch.                                       *)
(*                                                                         *)
(* A Python string is a sequence of one-character strings, so that         *)
(* concatenation, startswith, endswith, split and join are computed on the *)
(* characters.  A Python list is an object in the heap, named by its       *)
(* index; a name holds a reference (an index), and two names alias when    *)
(* they hold the same index.  The module namespace is the dictionary ns.   *)
(***************************************************************************)
EXTENDS Integers, Sequences, FiniteSets, TLC

VARIABLES
    file,       \* os.path.realpath(__file__): where the module is on disk
    line,       \* the line of the module body about to run; Loaded at the end
    ns,         \* the module namespace: name -> value, for the names bound
    heap,       \* the list objects: index -> [kind, val, orig]
    frame,      \* per thread: the activation of mmt_javamain, or idle
    log,        \* history: returned list -> the call that returned it
    muts,       \* history: the number of caller updates of returned lists
    obs         \* per reader: its last read of a module constant

vars == <<file, line, ns, heap, frame, log, muts, obs>>

-----------------------------------------------------------------------------
(* Bounds *)

MaxDepth == 2         \* directories on the path of the module's file
MaxCalls == 2         \* calls of mmt_javamain
MaxArgLen == 2        \* elements of an extra-args list made by a caller
MaxMutations == 1     \* caller updates of returned lists
NumCallers == 2       \* threads calling mmt_javamain concurrently

Client == {1}                \* the thread of a single-threaded client
Callers == 1..NumCallers
Threads == DOMAIN frame      \* the calling threads of the behaviour at hand

\* Two readers, each reading one constant of its choice, once, at a time of
\* its choice.  What is stated of the readers relates one read, or two
\* reads, so that two readers show every violation that any number of them
\* can show.
Readers == {1, 2}

-----------------------------------------------------------------------------
(* String literals of the source *)

SEP == <<"/">>
pardir == <<".", ".">>
author == <<"D","a","v","i","d","e"," ","C","a","r","o","s","e","l","l","i">>
version == <<"0", ".", "1", "1", ".", "1">>
engines == <<"e","n","g","i","n","e","s">>
runtime == <<"r","u","n","t","i","m","e">>
opt == <<"o","p","t">>
lib == <<"l","i","b">>
build == <<"b","u","i","l","d">>
bin == <<"b","i","n">>
mmt_dash == <<"m","m","t","-">>
dot_jar == <<".","j","a","r">>
java == <<"j","a","v","a">>
cp_flag == <<"-","c","p">>
home_flag == <<"-","D","m","m","t",".","h","o","m","e","=">>
libpath_flag == <<"-","D","j","a","v","a",".","l","i","b","r","a","r","y",".","p","a","t","h","=">>
init_py == <<"_","_","i","n","i","t","_","_",".","p","y">>

-----------------------------------------------------------------------------
(* posixpath, as lines 5-18 use it *)

startswith(s, p) == Len(s) >= Len(p) /\ SubSeq(s, 1, Len(p)) = p
endswith(s, p) == Len(s) >= Len(p) /\ SubSeq(s, Len(s) - Len(p) + 1, Len(s)) = p

\* s.rfind('/') + 1: the index of the last separator, 0 if there is none
rfind1(s) ==
    IF \E i \in 1..Len(s) : s[i] = "/"
    THEN CHOOSE i \in 1..Len(s) : s[i] = "/" /\ \A j \in (i+1)..Len(s) : s[j] # "/"
    ELSE 0

RECURSIVE rstrip(_)
rstrip(s) == IF s # <<>> /\ s[Len(s)] = "/" THEN rstrip(SubSeq(s, 1, Len(s) - 1)) ELSE s

\* os.path.dirname
dirname(p) ==
    LET head == SubSeq(p, 1, rfind1(p))
    IN  IF head # <<>> /\ \E i \in 1..Len(head) : head[i] # "/"
        THEN rstrip(head)
        ELSE head

\* os.path.join of two parts
join(a, b) ==
    IF startswith(b, SEP) THEN b
    ELSE IF a = <<>> \/ endswith(a, SEP) THEN a \o b
    ELSE a \o SEP \o b

\* path.split('/')
RECURSIVE split(_)
split(s) ==
    IF \E i \in 1..Len(s) : s[i] = "/"
    THEN LET i == CHOOSE k \in 1..Len(s) : s[k] = "/" /\ \A j \in 1..(k-1) : s[j] # "/"
         IN  <<SubSeq(s, 1, i - 1)>> \o split(SubSeq(s, i + 1, Len(s)))
    ELSE <<s>>

\* '/'.join(comps)
RECURSIVE slashjoin(_)
slashjoin(comps) ==
    IF comps = <<>> THEN <<>>
    ELSE IF Len(comps) = 1 THEN comps[1]
    ELSE comps[1] \o SEP \o slashjoin(Tail(comps))

\* the loop of os.path.normpath over the components
RECURSIVE normcomps(_, _, _)
normcomps(comps, new_comps, initial_slashes) ==
    IF comps = <<>> THEN new_comps
    ELSE LET comp == Head(comps)
             rest == Tail(comps)
         IN  IF comp = <<>> \/ comp = <<".">>
             THEN normcomps(rest, new_comps, initial_slashes)
             ELSE IF comp # pardir
                     \/ (initial_slashes = 0 /\ new_comps = <<>>)
                     \/ (new_comps # <<>> /\ new_comps[Len(new_comps)] = pardir)
             THEN normcomps(rest, Append(new_comps, comp), initial_slashes)
             ELSE IF new_comps # <<>>
             THEN normcomps(rest, SubSeq(new_comps, 1, Len(new_comps) - 1), initial_slashes)
             ELSE normcomps(rest, new_comps, initial_slashes)

\* os.path.normpath
normpath(path) ==
    IF path = <<>> THEN <<".">>
    ELSE LET initial_slashes ==
                 IF ~startswith(path, SEP) THEN 0
                 ELSE IF startswith(path, SEP \o SEP) /\ ~startswith(path, SEP \o SEP \o SEP)
                 THEN 2 ELSE 1
             body == slashjoin(normcomps(split(path), <<>>, initial_slashes))
             res == IF initial_slashes = 2 THEN SEP \o SEP \o body
                    ELSE IF initial_slashes = 1 THEN SEP \o body
                    ELSE body
         IN  IF res = <<>> THEN <<".">> ELSE res

\* os.path.abspath of a path that is absolute already, as dirname of a
\* realpath is: the current directory is not consulted
abspath(path) == normpath(path)

-----------------------------------------------------------------------------
(* Inputs *)

DirNames == {<<"m", "t">>}

RECURSIVE DirsUpTo(_)
DirsUpTo(n) ==
    IF n = 0 THEN {<<>>}
    ELSE DirsUpTo(n - 1) \cup
         {d \o SEP \o c : d \in DirsUpTo(n - 1), c \in DirNames}

\* the resolved locations of the module: /__init__.py, /mt/__init__.py, ...
Anchors == {d \o SEP \o init_py : d \in DirsUpTo(MaxDepth)}

\* main classes: a class name and, as nothing validates it, the empty string
MainClass == <<"p", ".", "M">>
Mains == {MainClass, <<>>}

\* what a caller stores into a returned list, and where: command[0] = 'z'
MutVals == {<<"z">>}
MutAt == {1}

\* the extra arguments: the lists [], ['-x'], ['-x', 'y'], ['-x', 'y', '-x'], ...
ArgAt(i) == IF i % 2 = 1 THEN <<"-", "x">> ELSE <<"y">>
ArgLists == {[i \in 1..n |-> ArgAt(i)] : n \in 0..MaxArgLen}

-----------------------------------------------------------------------------
(* The module namespace *)

Loaded == 0           \* the module body has run to its end
Idle == 0             \* a thread that is not inside mmt_javamain
None == 0             \* the reference that names no list
Raised == -1          \* a thread that left mmt_javamain by an exception

PathNames == {"MMT_ROOT", "ENGINES_DIR", "RUNTIME_DIR", "OPT_DIR", "LIB_DIR",
              "BUILD_DIR", "BIN_DIR", "MMT_JAR", "MMT_LIBS"}
ConstNames == PathNames \cup {"MMT_VERSION"}

\* the value a def statement binds; no string is equal to it
FunctionObject == <<"<function mmt_javamain>">>

\* NAME = value at module level
Bind(name, value) == [n \in DOMAIN ns \cup {name} |-> IF n = name THEN value ELSE ns[n]]

Assign(at, name, value, next) ==
    /\ line = at
    /\ ns' = Bind(name, value)
    /\ line' = next
    /\ UNCHANGED <<file, heap, frame, log, muts, obs>>

Line3 == Assign(3, "__author__", author, 5)
Line5 == Assign(5, "__self_dir", dirname(file), 7)
Line7 == Assign(7, "MMT_VERSION", version, 9)
Line9 == Assign(9, "MMT_ROOT", abspath(join(ns["__self_dir"], pardir)), 10)
Line10 == Assign(10, "ENGINES_DIR", join(ns["MMT_ROOT"], engines), 11)
Line11 == Assign(11, "RUNTIME_DIR", join(ns["MMT_ROOT"], runtime), 12)
Line12 == Assign(12, "OPT_DIR", join(ns["MMT_ROOT"], opt), 13)
Line13 == Assign(13, "LIB_DIR", join(ns["MMT_ROOT"], lib), 14)
Line14 == Assign(14, "BUILD_DIR", join(ns["MMT_ROOT"], build), 16)
\* BIN_DIR taken under the root instead of under OPT_DIR
Line16_root == Assign(16, "BIN_DIR", join(ns["MMT_ROOT"], bin), 18)
Line16 == Assign(16, "BIN_DIR", join(ns["OPT_DIR"], bin), 18)
\* the jar named after a version written out a second time, and stale
Line18_stale ==
    Assign(18, "MMT_JAR", join(ns["BUILD_DIR"], mmt_dash \o <<"0", ".", "1", "1", ".", "0">> \o dot_jar), 19)
Line18 == Assign(18, "MMT_JAR", join(ns["BUILD_DIR"], mmt_dash \o ns["MMT_VERSION"] \o dot_jar), 19)
\* MMT_LIBS left to be bound later
Line19_lazy ==
    /\ line = 19
    /\ line' = 22
    /\ UNCHANGED <<file, ns, heap, frame, log, muts, obs>>
Line19 == Assign(19, "MMT_LIBS", ns["BUILD_DIR"], 22)
Line22 == Assign(22, "mmt_javamain", FunctionObject, Loaded)

-----------------------------------------------------------------------------
(* The heap of list objects *)

Allocated == 1..Len(heap)

\* a new list object; its reference is Len(heap) + 1
Alloc(kind, val) == Append(heap, [kind |-> kind, val |-> val, orig |-> val])

Store(ref, val) == [heap EXCEPT ![ref].val = val]

\* the calls made so far: each allocates one list, at line 23
Calls == Cardinality({i \in Allocated : heap[i].kind = "result"})
         + Cardinality({t \in DOMAIN frame : frame[t].pc = 23})

InFlight(t) == frame[t].pc # Idle

IdleFrame == [pc |-> Idle, main_class |-> <<>>, args |-> None, command |-> None, seen |-> 0]

-----------------------------------------------------------------------------
(* The callers *)

\* a thread calls mmt_javamain(m); the name mmt_javamain is bound once
\* line 22 has run
Call(t, m) ==
    /\ "mmt_javamain" \in DOMAIN ns
    /\ frame[t].pc = Idle
    /\ Calls < MaxCalls
    /\ frame' = [frame EXCEPT ![t] = [pc |-> 23, main_class |-> m, args |-> None,
                                      command |-> None, seen |-> muts]]
    /\ UNCHANGED <<file, line, ns, heap, log, muts, obs>>

\* a thread calls mmt_javamain(m, a) with a list a it has built
CallArgs(t, m, a) ==
    /\ "mmt_javamain" \in DOMAIN ns
    /\ frame[t].pc = Idle
    /\ Calls < MaxCalls
    /\ heap' = Alloc("args", a)
    /\ frame' = [frame EXCEPT ![t] = [pc |-> 23, main_class |-> m, args |-> Len(heap) + 1,
                                      command |-> None, seen |-> muts]]
    /\ UNCHANGED <<file, line, ns, log, muts, obs>>

\* the lists a caller holds as results of returned calls
Returned == DOMAIN log

\* a caller appends to a list it was returned
CallerAppend(r, x) ==
    /\ r \in Returned
    /\ muts < MaxMutations
    /\ heap' = Store(r, Append(heap[r].val, x))
    /\ muts' = muts + 1
    /\ UNCHANGED <<file, line, ns, frame, log, obs>>

\* a caller overwrites an element of a list it was returned
CallerSetItem(r, i, x) ==
    /\ r \in Returned
    /\ muts < MaxMutations
    /\ i \in 1..Len(heap[r].val)
    /\ heap[r].val[i] # x
    /\ heap' = Store(r, [heap[r].val EXCEPT ![i] = x])
    /\ muts' = muts + 1
    /\ UNCHANGED <<file, line, ns, frame, log, obs>>

-----------------------------------------------------------------------------
(* mmt_javamain, statement by statement *)

\* the names the body of mmt_javamain looks up in the module namespace
Globals == {"MMT_JAR", "MMT_ROOT", "MMT_LIBS"}

\* '-Dmmt.home=' given the library path, '-Djava.library.path=' the root
Line23_swapped(t) ==
    /\ frame[t].pc = 23
    /\ Globals \subseteq DOMAIN ns
    /\ heap' = Alloc("result", <<java, cp_flag, ns["MMT_JAR"], home_flag \o ns["MMT_LIBS"],
                                 libpath_flag \o ns["MMT_ROOT"], frame[t].main_class>>)
    /\ frame' = [frame EXCEPT ![t].pc = 25, ![t].command = Len(heap) + 1]
    /\ UNCHANGED <<file, line, ns, log, muts, obs>>

\* MMT_LIBS = '-Djava.library.path=' + MMT_LIBS, on the global
Line23_rebind(t) ==
    /\ frame[t].pc = 23
    /\ Globals \subseteq DOMAIN ns
    /\ heap' = Alloc("result", <<java, cp_flag, ns["MMT_JAR"], home_flag \o ns["MMT_ROOT"],
                                 libpath_flag \o ns["MMT_LIBS"], frame[t].main_class>>)
    /\ ns' = [ns EXCEPT !["MMT_LIBS"] = libpath_flag \o ns["MMT_LIBS"]]
    /\ frame' = [frame EXCEPT ![t].pc = 25, ![t].command = Len(heap) + 1]
    /\ UNCHANGED <<file, line, log, muts, obs>>

\* the command kept in one list, built by the first call and filled in
\* anew by each later one
Line23_cached(t) ==
    LET val == <<java, cp_flag, ns["MMT_JAR"], home_flag \o ns["MMT_ROOT"],
                 libpath_flag \o ns["MMT_LIBS"], frame[t].main_class>>
        made == {i \in Allocated : heap[i].kind = "result"}
        first == CHOOSE i \in made : \A k \in made : i <= k
    IN  /\ frame[t].pc = 23
        /\ Globals \subseteq DOMAIN ns
        /\ heap' = IF made = {} THEN Alloc("result", val) ELSE Store(first, val)
        /\ frame' = [frame EXCEPT ![t].pc = 25,
                                  ![t].command = IF made = {} THEN Len(heap) + 1 ELSE first]
        /\ UNCHANGED <<file, line, ns, log, muts, obs>>

\* command = ['java', '-cp', MMT_JAR, '-Dmmt.home=' + MMT_ROOT,
\*            '-Djava.library.path=' + MMT_LIBS, main_class]
\* A global that is not bound raises NameError.
Line23(t) ==
    /\ frame[t].pc = 23
    /\ IF Globals \subseteq DOMAIN ns
       THEN /\ heap' = Alloc("result", <<java, cp_flag, ns["MMT_JAR"], home_flag \o ns["MMT_ROOT"],
                                         libpath_flag \o ns["MMT_LIBS"], frame[t].main_class>>)
            /\ frame' = [frame EXCEPT ![t].pc = 25, ![t].command = Len(heap) + 1]
       ELSE /\ heap' = heap
            /\ frame' = [frame EXCEPT ![t].pc = Raised]
    /\ UNCHANGED <<file, line, ns, log, muts, obs>>

\* the main class checked before use: if not main_class: raise ValueError
Line25_validate(t) ==
    /\ frame[t].pc = 25
    /\ frame' = [frame EXCEPT ![t].pc = IF frame[t].main_class = <<>> THEN Raised
                                        ELSE IF frame[t].args # None THEN 26 ELSE 28]
    /\ UNCHANGED <<file, line, ns, heap, log, muts, obs>>

\* if args is not None:
Line25(t) ==
    /\ frame[t].pc = 25
    /\ frame' = [frame EXCEPT ![t].pc = IF frame[t].args # None THEN 26 ELSE 28]
    /\ UNCHANGED <<file, line, ns, heap, log, muts, obs>>

\* ' '.join(args)
RECURSIVE spacejoin(_)
spacejoin(a) ==
    IF a = <<>> THEN <<>>
    ELSE IF Len(a) = 1 THEN a[1]
    ELSE a[1] \o <<" ">> \o spacejoin(Tail(a))

\* command = args + command
Line26_front(t) ==
    /\ frame[t].pc = 26
    /\ heap' = Store(frame[t].command, heap[frame[t].args].val \o heap[frame[t].command].val)
    /\ frame' = [frame EXCEPT ![t].pc = 28]
    /\ UNCHANGED <<file, line, ns, log, muts, obs>>

\* command.append(' '.join(args))
Line26_joined(t) ==
    /\ frame[t].pc = 26
    /\ heap' = Store(frame[t].command,
                     Append(heap[frame[t].command].val, spacejoin(heap[frame[t].args].val)))
    /\ frame' = [frame EXCEPT ![t].pc = 28]
    /\ UNCHANGED <<file, line, ns, log, muts, obs>>

\* args[:0] = command; command = args: the result built in the caller's list
Line26_inplace(t) ==
    /\ frame[t].pc = 26
    /\ heap' = Store(frame[t].args, heap[frame[t].command].val \o heap[frame[t].args].val)
    /\ frame' = [frame EXCEPT ![t].pc = 28, ![t].command = frame[t].args]
    /\ UNCHANGED <<file, line, ns, log, muts, obs>>

\* command += args: the list command names is extended in place by the
\* elements of args
Line26(t) ==
    /\ frame[t].pc = 26
    /\ heap' = Store(frame[t].command, heap[frame[t].command].val \o heap[frame[t].args].val)
    /\ frame' = [frame EXCEPT ![t].pc = 28]
    /\ UNCHANGED <<file, line, ns, log, muts, obs>>

\* return command
Line28(t) ==
    /\ frame[t].pc = 28
    /\ log' = [r \in DOMAIN log \cup {frame[t].command} |->
                   IF r = frame[t].command
                   THEN [main_class |-> frame[t].main_class,
                         supplied |-> frame[t].args # None,
                         args |-> IF frame[t].args # None THEN heap[frame[t].args].orig ELSE <<>>,
                         value |-> heap[r].val,
                         seen |-> frame[t].seen]
                   ELSE log[r]]
    /\ frame' = [frame EXCEPT ![t] = IdleFrame]
    /\ UNCHANGED <<file, line, ns, heap, muts, obs>>

-----------------------------------------------------------------------------
(* The readers *)

NoRead == [name |-> "", found |-> FALSE, val |-> <<>>, loaded |-> FALSE]

\* a reader reads scripts.NAME, once; a name that is not bound yet is not found
Read(r, name) ==
    /\ obs[r] = NoRead
    /\ obs' = [obs EXCEPT ![r] = [name |-> name,
                                   found |-> name \in DOMAIN ns,
                                   val |-> IF name \in DOMAIN ns THEN ns[name] ELSE <<>>,
                                   loaded |-> line = Loaded]]
    /\ UNCHANGED <<file, line, ns, heap, frame, log, muts>>

-----------------------------------------------------------------------------

Init ==
    /\ file \in Anchors
    /\ line = 3
    /\ ns = <<>>
    /\ heap = <<>>
    /\ frame = [t \in Client |-> IdleFrame]
    /\ log = <<>>
    /\ muts = 0
    /\ obs = [r \in Readers |-> NoRead]

Load ==
    \/ Line3 \/ Line5 \/ Line7 \/ Line9 \/ Line10 \/ Line11 \/ Line12
    \/ Line13 \/ Line14 \/ Line16 \/ Line18 \/ Line19 \/ Line22

Step(t) == Line23(t) \/ Line25(t) \/ Line26(t) \/ Line28(t)

\* A single-threaded client: it imports the module, calls mmt_javamain and
\* updates the lists it is returned.
Next ==
    \/ Load
    \/ \E t \in Threads, m \in Mains : Call(t, m)
    \/ \E t \in Threads, m \in Mains, a \in ArgLists : CallArgs(t, m, a)
    \/ \E t \in Threads : Step(t)
    \/ \E r \in Returned, x \in MutVals : CallerAppend(r, x)
    \/ \E r \in Returned, i \in MutAt, x \in MutVals : CallerSetItem(r, i, x)

Spec == Init /\ [][Next]_vars

\* Concurrent clients: threads that read the constants at any time, the
\* loading included, and threads that call mmt_javamain(MainClass), whose
\* statements interleave with each other and with the reads.
InitR ==
    /\ file \in Anchors
    /\ line = 3
    /\ ns = <<>>
    /\ heap = <<>>
    /\ frame = [t \in Callers |-> IdleFrame]
    /\ log = <<>>
    /\ muts = 0
    /\ obs = [r \in Readers |-> NoRead]

NextR ==
    \/ Load
    \/ \E r \in Readers, name \in ConstNames : Read(r, name)
    \/ \E t \in Threads : Call(t, MainClass)
    \/ \E t \in Threads : Line23(t) \/ Line25(t) \/ Line28(t)

SpecR == InitR /\ [][NextR]_vars

-----------------------------------------------------------------------------
(* What the calls return *)

\* the sequence a call with no extra arguments is to return for main class m
NoArgsCommand(m) ==
    <<java, cp_flag, ns["MMT_JAR"], home_flag \o ns["MMT_ROOT"], libpath_flag \o ns["MMT_LIBS"], m>>

SameInputs(c, d) ==
    /\ c.main_class = d.main_class
    /\ c.supplied = d.supplied
    /\ c.args = d.args

\* C1: for every main class m, mmt_javamain(m) returns exactly the six
\* elements 'java', '-cp', MMT_JAR, '-Dmmt.home=' + MMT_ROOT,
\* '-Djava.library.path=' + MMT_LIBS, m, in that order, with nothing after m.
NoArgsResult ==
    \A r \in DOMAIN log :
        ~log[r].supplied =>
            /\ Len(log[r].value) = 6
            /\ log[r].value = NoArgsCommand(log[r].main_class)

NoArgsReturned ==
    \E r \in DOMAIN log :
        /\ ~log[r].supplied
        /\ log[r].main_class = MainClass
        /\ Len(ns["MMT_ROOT"]) > 1

\* C2: for every main class m and every supplied list a, mmt_javamain(m, a)
\* returns the no-extra-args result for m followed by the elements of a in
\* the order supplied: length 6 + len(a), m at position 6, element i of a at
\* position 6 + i.
ArgsAppendedInOrder ==
    \A r \in DOMAIN log :
        log[r].supplied =>
            /\ Len(log[r].value) = 6 + Len(log[r].args)
            /\ SubSeq(log[r].value, 1, 6) = NoArgsCommand(log[r].main_class)
            /\ log[r].value[6] = log[r].main_class
            /\ \A i \in 1..Len(log[r].args) : log[r].value[6 + i] = log[r].args[i]

TwoArgsReturned ==
    \E r \in DOMAIN log :
        /\ log[r].supplied
        /\ Len(log[r].args) >= 2
        /\ log[r].args[1] # log[r].args[2]

NoSideEffects ==
    [][\A t \in Threads :
          (InFlight(t) /\ frame'[t] # frame[t]) =>
              /\ \A n \in ConstNames : n \in DOMAIN ns' /\ ns'[n] = ns[n]
              /\ frame[t].args # None =>
                    /\ Len(heap'[frame[t].args].val) = Len(heap[frame[t].args].val)
                    /\ heap'[frame[t].args].val = heap[frame[t].args].val]_vars

ArgsCallReturned ==
    \E r \in DOMAIN log :
        /\ log[r].supplied
        /\ Len(log[r].args) = MaxArgLen
        /\ \E i \in Allocated : heap[i].kind = "args" /\ heap[i].val = log[r].args

\* C5: once the module is loaded MMT_JAR is BUILD_DIR joined with
\* 'mmt-' + MMT_VERSION + '.jar', and no step changes MMT_VERSION or MMT_JAR.
JarMatchesVersion ==
    /\ [](line = Loaded =>
            ns["MMT_JAR"] = join(ns["BUILD_DIR"], mmt_dash \o ns["MMT_VERSION"] \o dot_jar))
    /\ [][line = Loaded =>
            /\ ns'["MMT_VERSION"] = ns["MMT_VERSION"]
            /\ ns'["MMT_JAR"] = ns["MMT_JAR"]]_vars

JarBound ==
    /\ line = Loaded
    /\ ns["MMT_VERSION"] = version
    /\ endswith(ns["MMT_JAR"], SEP \o build \o SEP \o mmt_dash \o version \o dot_jar)
    /\ DOMAIN log # {}

\* C6: after the load, for every location of the module, ENGINES_DIR,
\* RUNTIME_DIR, OPT_DIR, LIB_DIR and BUILD_DIR are MMT_ROOT joined with
\* 'engines', 'runtime', 'opt', 'lib' and 'build', BIN_DIR is OPT_DIR joined
\* with 'bin', and MMT_ROOT is the parent of the module's directory.
DerivedFromRoot ==
    line = Loaded =>
        /\ ns["MMT_ROOT"] = abspath(join(dirname(file), pardir))
        /\ ns["ENGINES_DIR"] = join(ns["MMT_ROOT"], engines)
        /\ ns["RUNTIME_DIR"] = join(ns["MMT_ROOT"], runtime)
        /\ ns["OPT_DIR"] = join(ns["MMT_ROOT"], opt)
        /\ ns["LIB_DIR"] = join(ns["MMT_ROOT"], lib)
        /\ ns["BUILD_DIR"] = join(ns["MMT_ROOT"], build)
        /\ ns["BIN_DIR"] = join(ns["OPT_DIR"], bin)

LoadedBelowRoot ==
    /\ line = Loaded
    /\ Len(ns["MMT_ROOT"]) > 1
    /\ ns["BIN_DIR"] = ns["MMT_ROOT"] \o SEP \o opt \o SEP \o bin

\* C7: a reader that reads after the load finds the constant bound, and two
\* readers that read the same constant after the load read the same value,
\* however the reads and the calls of mmt_javamain interleave.
ReadersAgree ==
    /\ \A r \in Readers : obs[r].loaded => obs[r].found /\ obs[r].val = ns[obs[r].name]
    /\ \A r1, r2 \in Readers :
          (obs[r1].loaded /\ obs[r2].loaded /\ obs[r1].name = obs[r2].name) =>
              obs[r1].val = obs[r2].val

TwoReadsAroundCall ==
    \E r1, r2 \in Readers :
        /\ r1 # r2
        /\ obs[r1].loaded /\ obs[r2].loaded
        /\ obs[r1].name = "MMT_LIBS" /\ obs[r2].name = "MMT_LIBS"
        /\ DOMAIN log # {}
        /\ \E t \in Threads : frame[t].pc = 28

\* C8: a call never ends in an error: a thread inside mmt_javamain is at one
\* of its statements, the statement can run, and what is returned is a list;
\* this for every main class, the empty one included, and extra arguments
\* absent or supplied.
NoErrorOutcome ==
    /\ \A t \in Threads :
          /\ frame[t].pc # Raised
          /\ InFlight(t) => frame[t].pc \in {23, 25, 26, 28}
          /\ InFlight(t) => ENABLED (Line23(t) \/ Line25(t) \/ Line26(t) \/ Line28(t))
    /\ \A r \in DOMAIN log : r \in Allocated /\ heap[r].kind = "result"

EmptyMainReturned ==
    /\ \E r \in DOMAIN log : log[r].main_class = <<>> /\ log[r].supplied
    /\ \E r \in DOMAIN log : log[r].main_class = <<>> /\ ~log[r].supplied

\* C9: for every main class, a call with the extra arguments absent and a
\* call with an empty list of them return the same sequence.
AbsentIsEmpty ==
    \A r1, r2 \in DOMAIN log :
        (/\ log[r1].main_class = log[r2].main_class
         /\ ~log[r1].supplied
         /\ log[r2].supplied /\ log[r2].args = <<>>) =>
            log[r1].value = log[r2].value

AbsentAndEmptyReturned ==
    \E r1, r2 \in DOMAIN log :
        /\ log[r1].main_class = log[r2].main_class
        /\ ~log[r1].supplied
        /\ log[r2].supplied /\ log[r2].args = <<>>

\* C10: the list a call builds is a new one: it is no list returned before,
\* no caller's extra-args list and no other call's list; so, whatever the
\* callers do to the lists they were returned, the extra-args lists stay as
\* they were made and every call returns the expected sequence.
FreshResult ==
    /\ \A t \in Threads :
          frame[t].command # None =>
              /\ heap[frame[t].command].kind = "result"
              /\ frame[t].command \notin DOMAIN log
              /\ \A u \in Threads \ {t} : frame[u].command # frame[t].command
    /\ \A i \in Allocated : heap[i].kind = "args" => heap[i].val = heap[i].orig
    /\ \A r \in DOMAIN log :
          log[r].value = NoArgsCommand(log[r].main_class) \o log[r].args

CallAfterUpdate ==
    \E r1, r2 \in DOMAIN log :
        /\ r1 < r2
        /\ SameInputs(log[r1], log[r2])
        /\ log[r1].supplied /\ log[r1].args # <<>>
        /\ heap[r1].val # log[r1].value
        /\ log[r2].seen > 0

====
